---- MODULE Spec2Model ----
(***************************************************************************)
(* Model of src/components/Chart/Chart.tsx: the Chart React component      *)
(* (its state hooks, the fetchData effect, the plot-building effect with   *)
(* its cleanup, the four control handlers) and the helper getGrid.         *)
(*                                                                         *)
(* Numbers.  opacity, skew, bandwidth and the fixed mark options (weight,  *)
(* fillOpacity, r, ...) are JavaScript numbers; the model stores them in   *)
(* hundredths (0.9 is 90, 20 is 2000); the positions of the emotions have  *)
(* three decimals and are stored in thousandths.  The control values       *)
(* enumerated below are ones on which IEEE-754 double subtraction and      *)
(* addition agree                                                          *)
(* with the decimal result (0.9 - 0.5 is 0.4, 0.9 + 0.5 is 1.4, ...).      *)
(* Sample coordinates are dyadic rationals k/128, so that d.x * 100 is     *)
(* exact in double arithmetic and Math.floor(d.x * 100) is (100*k) \div    *)
(* 128.  Counts (thresholds, grid cells) are plain integers.               *)
(*                                                                         *)
(* Arrays carry a reference identity (ref), because React compares state   *)
(* and effect dependencies with Object.is: a fetched array is a new        *)
(* object even when it has the same elements as the current one.           *)
(*                                                                         *)
(* React runs a commit without interleaving other events: phase says what  *)
(* is left of the current commit ("mount": the effects of the first        *)
(* render, "cleanup": the previous plot effect's cleanup, "effect": the    *)
(* plot effect's body) and is "idle" between events.  The two setState     *)
(* calls of fetchData are batched into one render.                         *)
(***************************************************************************)
EXTENDS Integers, Sequences, FiniteSets

VARIABLES
    mounted,        \* the component instance exists
    phase,          \* "mount" | "cleanup" | "effect" | "idle"
    localData,      \* useState localData
    globalData,     \* useState globalData
    displayPoints,  \* useState displayPoints
    opacity,        \* useState opacity    (hundredths)
    bandwidth,      \* useState bandwidth  (hundredths)
    skew,           \* useState skew       (hundredths)
    container,      \* children of containerRef.current, in order
    cleanup,        \* <<plot>> captured by the pending cleanup closure, or <<>>
    fetchPc,        \* position of fetchData: "init" | "await_l" | "await_g" | "done"
    l,              \* fetchData's local l
    g,              \* fetchData's local g
    requests,       \* URLs handed to d3.json, in order
    log,            \* console.error calls, in order
    gData,          \* getGrid: its argument data
    gResult,        \* getGrid: what the call produced
    gPc             \* getGrid: "off" | "ready" | "done"

chartVars == <<mounted, phase, localData, globalData, displayPoints, opacity,
               bandwidth, skew, container, cleanup, fetchPc, l, g, requests, log>>
gridVars == <<gData, gResult, gPc>>
vars == <<mounted, phase, localData, globalData, displayPoints, opacity,
          bandwidth, skew, container, cleanup, fetchPc, l, g, requests, log,
          gData, gResult, gPc>>

-----------------------------------------------------------------------------
(* Values *)

\* A SessionData element; x and y in units of 1/128.
Point(x, y, scope) == [x |-> x, y |-> y, scope |-> scope]

\* A JavaScript array of SessionData with its identity, and the value undefined.
Arr(ref, rows) == [defined |-> TRUE, ref |-> ref, rows |-> rows]
Undefined == [defined |-> FALSE, ref |-> 0, rows |-> <<>>]

\* The two array literals useState is given for localData and globalData.
InitialLocal == Arr(1, <<>>)
InitialGlobal == Arr(2, <<>>)

\* What d3.json can resolve with for each URL: a parsed array, or undefined.
LocalPayloads ==
    { Undefined,
      Arr(3, <<>>),
      Arr(3, <<Point(122, 122, "local")>>) }
GlobalPayloads ==
    { Undefined,
      Arr(4, <<Point(32, 64, "global"), Point(96, 16, "global")>>) }

LocalUrl == "/datasets/local-heatmap.json"
GlobalUrl == "/datasets/global-heatmap.json"

\* event.target.value strings the handlers are called with.
OpacityInputs == {"0.5", "0.9", "7"}
BandwidthInputs == {"20", "50.0", "90"}
SkewInputs == {"0.5", "-0.5", "2"}

\* parseFloat on the strings above, in hundredths.
parseFloat(s) ==
    CASE s = "0.5" -> 50
      [] s = "0.9" -> 90
      [] s = "7" -> 700
      [] s = "20" -> 2000
      [] s = "50.0" -> 5000
      [] s = "90" -> 9000
      [] s = "-0.5" -> -50
      [] s = "2" -> 200

\* An Emotion: name, color (RGB triple), hsl (<<>> when the optional field is
\* absent; hue in degrees, saturation and lightness in hundredths) and
\* position.  Positions have three decimals (0.845), so they are stored in
\* thousandths: 0.845 is 845, 0.97 is 970.
Emotion(name, color, hsl, px, py) ==
    [name |-> name, color |-> color, hsl |-> hsl, position |-> <<px, py>>]

\* The module-level array emotions.
emotions ==
    [defined |-> TRUE, ref |-> 0,
     rows |-> << Emotion("joy", <<255, 248, 77>>, <<>>, 970, 560),
                 Emotion("excited", <<242, 136, 38>>, <<>>, 845, 860),
                 Emotion("alarmed", <<210, 37, 25>>, <<4, 79, 46>>, 460, 945),
                 Emotion("annoyed", <<182, 18, 67>>, <<342, 82, 39>>, 280, 830),
                 Emotion("anxious", <<239, 92, 180>>, <<>>, 140, 105),
                 Emotion("bored", <<99, 26, 192>>, <<>>, 330, 105),
                 Emotion("serious", <<43, 48, 170>>, <<>>, 610, 170),
                 Emotion("relaxed", <<26, 179, 192>>, <<>>, 855, 170),
                 Emotion("neutral", <<128, 128, 128>>, <<>>, 500, 500) >>]

-----------------------------------------------------------------------------
(* getGrid *)

\* Bound on the length of the data getGrid is applied to.
MaxPoints == 2

\* Length of grid and of each of its rows.
R == 100

\* Coordinates the sample points take, in units of 1/128: 0, 0.2890625,
\* 0.9921875 (the last value below 1.0 here) and exactly 1.0.
XCoords == {37, 127, 128}
YCoords == {0, 127, 128}
SamplePoints == { Point(x, y, "local") : x \in XCoords, y \in YCoords }

RECURSIVE SeqsUpTo(_, _)
SeqsUpTo(S, n) ==
    IF n = 0 THEN { <<>> }
    ELSE LET shorter == SeqsUpTo(S, n - 1)
         IN shorter \cup { Append(s, e) : s \in { t \in shorter : Len(t) = n - 1 }, e \in S }

\* Array.from({ length: 100 }, () => Array.from({ length: 100 }, () => 0));
\* index i of a JavaScript array is position i + 1 of the sequence.
NewGrid == [r \in 1..R |-> [c \in 1..R |-> 0]]

\* Variant of CellIndex: the index clamped into the grid.
CellIndexClamped(coord) ==
    IF (coord * 100) \div 128 > R - 1 THEN R - 1 ELSE (coord * 100) \div 128

\* Math.floor(coordinate * 100), the coordinate given in units of 1/128.
CellIndex(coord) == (coord * 100) \div 128

\* The JavaScript value NaN in a cell.  Cells that hold a number hold a
\* count, which is never negative; NaN is written as -1.
NaN == -1

\* Variant of Increment: `cell = 1` in place of `cell += 1`.
IncrementAssigns(cell) == 1

\* The value `cell += 1` stores into an existing cell (NaN + 1 is NaN).
Increment(cell) == IF cell = NaN THEN NaN ELSE cell + 1

\* row[xIndex] += 1 on a row array.  Past the end the read gives undefined,
\* undefined + 1 is NaN, and the assignment extends the array by that
\* element (xIndex is at most the row's length for coordinates up to 1.0).
RowIncrement(row, xIndex) ==
    IF xIndex < Len(row)
    THEN [row EXCEPT ![xIndex + 1] = Increment(@)]
    ELSE Append(row, NaN)

NoResult == [threw |-> FALSE, grid |-> <<>>]

\* data.forEach(...) from element i on.  grid[yIndex] past the last row is
\* undefined, and indexing undefined throws a TypeError out of getGrid.
RECURSIVE GridForEach(_, _, _)
GridForEach(grid, data, i) ==
    IF i > Len(data) THEN [threw |-> FALSE, grid |-> grid]
    ELSE LET xIndex == CellIndex(data[i].x)
             yIndex == CellIndex(data[i].y)
         IN IF yIndex >= Len(grid)
            THEN [threw |-> TRUE, grid |-> grid]
            ELSE GridForEach([grid EXCEPT ![yIndex + 1] = RowIncrement(@, xIndex)],
                             data, i + 1)

getGrid(data) == GridForEach(NewGrid, data, 1)

-----------------------------------------------------------------------------
(* The marks of Plot.plot *)

\* Plot.density(globalData, {...})
GlobalDensity(gd, bw, op, sk) ==
    [type |-> "density", data |-> gd, weight |-> 20, bandwidth |-> bw,
     stroke |-> "density", strokeOpacity |-> op - sk, thresholds |-> 100]

\* Variant of LocalDensity: the opacities clamped to at most 1.
LocalDensityClamped(ld, bw, op, sk) ==
    LET o == IF op + sk > 100 THEN 100 ELSE op + sk
    IN [type |-> "density", data |-> ld, opacity |-> 100, bandwidth |-> bw,
        fill |-> "density", fillOpacity |-> o,
        stroke |-> "density", strokeOpacity |-> o, thresholds |-> 100]

\* Plot.density(localData, {...})
LocalDensity(ld, bw, op, sk) ==
    [type |-> "density", data |-> ld, opacity |-> 100, bandwidth |-> bw,
     fill |-> "density", fillOpacity |-> op + sk,
     stroke |-> "density", strokeOpacity |-> op + sk, thresholds |-> 100]

\* Variant of PointOverlay: the dot mark whatever displayPoints is.
PointOverlayAlways(dp, ld) ==
    [type |-> "dot", data |-> ld, fill |-> "white", stroke |-> "white",
     strokeOpacity |-> 50, fillOpacity |-> 20, r |-> 150]

\* displayPoints ? Plot.dot(localData, {...}) : null
PointOverlay(dp, ld) ==
    IF dp
    THEN [type |-> "dot", data |-> ld, fill |-> "white", stroke |-> "white",
          strokeOpacity |-> 50, fillOpacity |-> 20, r |-> 150]
    ELSE [type |-> "null"]

\* The element Plot.plot returns: its marks array and fixed options.
PlotPlot(ld, gd, dp, op, bw, sk) ==
    [width |-> 1024, height |-> 1024,
     marks |-> << [type |-> "frame"],
                  GlobalDensity(gd, bw, op, sk),
                  LocalDensity(ld, bw, op, sk),
                  PointOverlay(dp, ld),
                  [type |-> "text", data |-> emotions, lineAnchor |-> "bottom"],
                  [type |-> "dot", data |-> emotions] >>]

\* containerRef.current.append(plot)
ContainerAppend(c, plot) == Append(c, plot)

RECURSIVE RemoveFirst(_, _)
RemoveFirst(c, plot) ==
    IF c = <<>> THEN <<>>
    ELSE IF Head(c) = plot THEN Tail(c)
    ELSE <<Head(c)>> \o RemoveFirst(Tail(c), plot)

\* Variant of PlotRemove: the element stays attached.
PlotRemoveNothing(c, plot) == c

\* plot.remove(): detaches that element from its parent.
PlotRemove(c, plot) == RemoveFirst(c, plot)

\* Variant of PlotDeps: skew left out of the dependency list.
PlotDepsWithoutSkew(ld, gd, op, bw, sk, dp) == <<ld, gd, op, bw, dp>>

\* The dependency list of the plot effect, compared element by element.
PlotDeps(ld, gd, op, bw, sk, dp) == <<ld, gd, op, bw, sk, dp>>

\* The phase after a handler's state updates: React re-renders and re-runs
\* the plot effect (cleanup first) iff the component is mounted and a
\* dependency changed.
AfterUpdate(m, old, new) ==
    IF m /\ old # new THEN "cleanup" ELSE "idle"

CurrentDeps == PlotDeps(localData, globalData, opacity, bandwidth, skew, displayPoints)

-----------------------------------------------------------------------------
(* The Chart component *)

InitChart ==
    /\ mounted = TRUE
    /\ phase = "mount"
    /\ localData = InitialLocal
    /\ globalData = InitialGlobal
    /\ displayPoints = FALSE
    /\ opacity = 500
    /\ bandwidth = 2000
    /\ skew = 0
    /\ container = <<>>
    /\ cleanup = <<>>
    /\ fetchPc = "init"
    /\ l = Undefined
    /\ g = Undefined
    /\ requests = <<>>
    /\ log = <<>>

GridOff ==
    /\ gData = <<>>
    /\ gResult = NoResult
    /\ gPc = "off"

\* First effect of the first render: fetchData() runs up to its first await.
FetchEffect ==
    /\ mounted /\ phase = "mount"
    /\ fetchPc = "init"
    /\ requests' = Append(requests, LocalUrl)
    /\ fetchPc' = "await_l"
    /\ phase' = "effect"
    /\ UNCHANGED <<mounted, localData, globalData, displayPoints, opacity,
                   bandwidth, skew, container, cleanup, l, g, log>>

\* The cleanup the previous run of the plot effect returned: () => plot.remove()
PlotCleanup ==
    /\ mounted /\ phase = "cleanup"
    /\ container' = IF cleanup = <<>> THEN container
                    ELSE PlotRemove(container, cleanup[1])
    /\ cleanup' = <<>>
    /\ phase' = "effect"
    /\ UNCHANGED <<mounted, localData, globalData, displayPoints, opacity,
                   bandwidth, skew, fetchPc, l, g, requests, log>>

\* The body of the plot effect.
PlotEffect ==
    /\ mounted /\ phase = "effect"
    /\ IF ~localData.defined \/ ~globalData.defined
       THEN UNCHANGED <<container, cleanup>>
       ELSE LET plot == PlotPlot(localData, globalData, displayPoints,
                                 opacity, bandwidth, skew)
            IN /\ container' = ContainerAppend(container, plot)
               /\ cleanup' = <<plot>>
    /\ phase' = "idle"
    /\ UNCHANGED <<mounted, localData, globalData, displayPoints, opacity,
                   bandwidth, skew, fetchPc, l, g, requests, log>>

\* await d3.json(local) resolves; fetchData goes on to request the global file.
LocalResolves(payload) ==
    /\ phase = "idle" /\ fetchPc = "await_l"
    /\ l' = payload
    /\ requests' = Append(requests, GlobalUrl)
    /\ fetchPc' = "await_g"
    /\ UNCHANGED <<mounted, phase, localData, globalData, displayPoints, opacity,
                   bandwidth, skew, container, cleanup, g, log>>

\* Either await rejects: the catch block logs.
FetchRejects ==
    /\ phase = "idle" /\ fetchPc \in {"await_l", "await_g"}
    /\ log' = Append(log, "Error fetching data:")
    /\ fetchPc' = "done"
    /\ UNCHANGED <<mounted, phase, localData, globalData, displayPoints, opacity,
                   bandwidth, skew, container, cleanup, l, g, requests>>

\* Variant of FetchStore: the setters called without the undefined check.
FetchStoreUnchecked(lv, gv, ld, gd) == <<lv, gv>>

\* What fetchData stores once both awaits resolved: <<localData, globalData>>.
FetchStore(lv, gv, ld, gd) ==
    IF ~lv.defined \/ ~gv.defined THEN <<ld, gd>> ELSE <<lv, gv>>

\* await d3.json(global) resolves; the rest of fetchData runs.  A state setter
\* called after the component was unmounted does nothing.
GlobalResolves(payload) ==
    /\ phase = "idle" /\ fetchPc = "await_g"
    /\ g' = payload
    /\ fetchPc' = "done"
    /\ LET stored == FetchStore(l, payload, localData, globalData)
       IN /\ localData' = IF mounted THEN stored[1] ELSE localData
          /\ globalData' = IF mounted THEN stored[2] ELSE globalData
    /\ phase' = AfterUpdate(mounted, CurrentDeps,
                            PlotDeps(localData', globalData', opacity, bandwidth,
                                     skew, displayPoints))
    /\ UNCHANGED <<mounted, displayPoints, opacity, bandwidth, skew, container,
                   cleanup, l, requests, log>>

togglePoints ==
    /\ mounted /\ phase = "idle"
    /\ displayPoints' = ~displayPoints
    /\ phase' = AfterUpdate(mounted, CurrentDeps,
                            PlotDeps(localData, globalData, opacity, bandwidth,
                                     skew, displayPoints'))
    /\ UNCHANGED <<mounted, localData, globalData, opacity, bandwidth, skew,
                   container, cleanup, fetchPc, l, g, requests, log>>

handleOpacityChange(value) ==
    /\ mounted /\ phase = "idle"
    /\ opacity' = parseFloat(value)
    /\ phase' = AfterUpdate(mounted, CurrentDeps,
                            PlotDeps(localData, globalData, opacity', bandwidth,
                                     skew, displayPoints))
    /\ UNCHANGED <<mounted, localData, globalData, displayPoints, bandwidth, skew,
                   container, cleanup, fetchPc, l, g, requests, log>>

handleBandwidthChange(value) ==
    /\ mounted /\ phase = "idle"
    /\ bandwidth' = parseFloat(value)
    /\ phase' = AfterUpdate(mounted, CurrentDeps,
                            PlotDeps(localData, globalData, opacity, bandwidth',
                                     skew, displayPoints))
    /\ UNCHANGED <<mounted, localData, globalData, displayPoints, opacity, skew,
                   container, cleanup, fetchPc, l, g, requests, log>>

handleSkewChange(value) ==
    /\ mounted /\ phase = "idle"
    /\ skew' = parseFloat(value)
    /\ phase' = AfterUpdate(mounted, CurrentDeps,
                            PlotDeps(localData, globalData, opacity, bandwidth,
                                     skew', displayPoints))
    /\ UNCHANGED <<mounted, localData, globalData, displayPoints, opacity,
                   bandwidth, container, cleanup, fetchPc, l, g, requests, log>>

\* Variant of UnmountCleanup: nothing is removed at unmount.
UnmountNoCleanup(c, cl) == c

\* The container after React ran the plot effect's pending cleanup at unmount.
UnmountCleanup(c, cl) ==
    IF cl = <<>> THEN c ELSE PlotRemove(c, cl[1])

\* The owning view is destroyed: React runs the pending cleanup; a fetch in
\* flight is not cancelled.
Unmount ==
    /\ mounted /\ phase = "idle"
    /\ mounted' = FALSE
    /\ container' = UnmountCleanup(container, cleanup)
    /\ cleanup' = <<>>
    /\ UNCHANGED <<phase, localData, globalData, displayPoints, opacity,
                   bandwidth, skew, fetchPc, l, g, requests, log>>

Init == InitChart /\ GridOff

Next ==
    \/ FetchEffect /\ UNCHANGED gridVars
    \/ PlotCleanup /\ UNCHANGED gridVars
    \/ PlotEffect /\ UNCHANGED gridVars
    \/ (\E payload \in LocalPayloads : LocalResolves(payload)) /\ UNCHANGED gridVars
    \/ FetchRejects /\ UNCHANGED gridVars
    \/ (\E payload \in GlobalPayloads : GlobalResolves(payload)) /\ UNCHANGED gridVars
    \/ togglePoints /\ UNCHANGED gridVars
    \/ (\E value \in OpacityInputs : handleOpacityChange(value)) /\ UNCHANGED gridVars
    \/ (\E value \in BandwidthInputs : handleBandwidthChange(value)) /\ UNCHANGED gridVars
    \/ (\E value \in SkewInputs : handleSkewChange(value)) /\ UNCHANGED gridVars
    \/ Unmount /\ UNCHANGED gridVars

Spec == Init /\ [][Next]_vars

-----------------------------------------------------------------------------
(* getGrid applied to bounded inputs *)

InitGrid ==
    /\ InitChart
    /\ gData \in SeqsUpTo(SamplePoints, MaxPoints)
    /\ gResult = NoResult
    /\ gPc = "ready"

CallGetGrid ==
    /\ gPc = "ready"
    /\ gResult' = getGrid(gData)
    /\ gPc' = "done"
    /\ UNCHANGED gData

NextGrid == CallGetGrid /\ UNCHANGED chartVars

GridSpec == InitGrid /\ [][NextGrid]_vars

-----------------------------------------------------------------------------
(* Properties of the Chart component, checked under Spec *)

Resting == mounted /\ phase = "idle"
FetchedBoth == fetchPc = "done" /\ l.defined /\ g.defined /\ log = <<>>
FetchFailed == fetchPc = "done" /\ (log # <<>> \/ ~l.defined \/ ~g.defined)
ShownPlot == PlotPlot(localData, globalData, displayPoints, opacity, bandwidth, skew)

\* C1: at every moment, also between the cleanup and the body of a re-run of
\* the plot effect, at most one plot element is attached to the container.
C1_AtMostOneArtifact == Len(container) <= 1

\* A plot attached after the datasets were replaced and parameters edited.
C1_Witness ==
    /\ Resting /\ Len(container) = 1
    /\ localData.ref = 3 /\ globalData.ref = 4
    /\ displayPoints /\ opacity = 90 /\ skew = -50 /\ bandwidth = 5000

\* C2: a plot is built or attached only after both fetches resolved with a
\* defined payload (the claim as stated).
C2_NoArtifactBeforeFetches ==
    (container # <<>> \/ cleanup # <<>>) => FetchedBoth

\* C3: the stored parameters lie in their declared ranges, opacity in [0,1],
\* bandwidth in [10,80], skew in [-1,1] (the claim as stated; hundredths).
C3_ParametersInRange ==
    /\ opacity >= 0 /\ opacity <= 100
    /\ bandwidth >= 1000 /\ bandwidth <= 8000
    /\ skew >= -100 /\ skew <= 100

\* C4: once the component is unmounted nothing is attached to the container,
\* whatever the position of fetchData at unmount and afterwards.
C4_NoArtifactAfterUnmount == ~mounted => (container = <<>> /\ cleanup = <<>>)

\* Unmounted while the fetch was in flight; both payloads then arrived
\* defined and were not stored.
C4_Witness ==
    /\ ~mounted /\ FetchedBoth /\ l.rows # <<>>
    /\ localData = InitialLocal /\ globalData = InitialGlobal
    /\ container = <<>>

\* C5: whenever no commit is in progress, the one attached plot is the plot
\* composed from the current datasets and the current four parameters.
C5_ArtifactIsCurrent == Resting => container = <<ShownPlot>>

\* Datasets replaced and every parameter edited away from its initial value.
C5_Witness ==
    /\ Resting /\ container = <<ShownPlot>>
    /\ localData.ref = 3 /\ localData.rows # <<>> /\ globalData.ref = 4
    /\ displayPoints /\ opacity = 50 /\ bandwidth = 9000 /\ skew = 200

\* C6: after a failed fetch (a rejection, or an undefined payload) both
\* datasets are still the initial empty arrays, each URL was requested at most
\* once, at most one error was logged, and the component still shows the plot
\* of its current state.
C6_FetchFailureTolerated ==
    FetchFailed =>
        /\ localData = InitialLocal /\ globalData = InitialGlobal
        /\ Len(requests) <= 2
        /\ \A i, j \in 1..Len(requests) : requests[i] = requests[j] => i = j
        /\ Len(log) <= 1
        /\ Resting => container = <<ShownPlot>>

\* The local payload arrived, the global one was undefined, and the controls
\* still work afterwards.
C6_Witness ==
    /\ FetchFailed /\ l.defined /\ l.rows # <<>> /\ ~g.defined
    /\ Resting /\ displayPoints /\ opacity = 90
    /\ localData = InitialLocal /\ Len(container) = 1

\* C9: in the attached plot the global density has strokeOpacity
\* opacity - skew, the local density has fillOpacity and strokeOpacity
\* opacity + skew, unclamped, and both have the current bandwidth and
\* thresholds 100.
C9_OpacityUnclamped ==
    (Resting /\ container # <<>>) =>
        LET m == container[1].marks
        IN /\ m[2].type = "density" /\ m[2].data = globalData
           /\ m[2].strokeOpacity = opacity - skew
           /\ m[3].type = "density" /\ m[3].data = localData
           /\ m[3].fillOpacity = opacity + skew
           /\ m[3].strokeOpacity = opacity + skew
           /\ m[2].bandwidth = bandwidth /\ m[3].bandwidth = bandwidth
           /\ m[2].thresholds = 100 /\ m[3].thresholds = 100

\* opacity 0.9 and skew 0.5: 0.4 on the global layer, 1.4 on the local one.
C9_Witness ==
    /\ Resting /\ container # <<>>
    /\ opacity = 90 /\ skew = 50
    /\ container[1].marks[2].strokeOpacity = 40
    /\ container[1].marks[3].fillOpacity = 140
    /\ container[1].marks[3].strokeOpacity = 140

HasPointOverlay(plot) ==
    \E i \in 1..Len(plot.marks) :
        /\ plot.marks[i].type = "dot"
        /\ plot.marks[i].data.ref = localData.ref

\* C10: the attached plot has a dot mark over the local dataset exactly when
\* displayPoints is true.
C10_PointLayerIffFlag ==
    (Resting /\ container # <<>>) => (HasPointOverlay(container[1]) <=> displayPoints)

\* The overlay shown over the fetched local dataset.
C10_Witness ==
    /\ Resting /\ container # <<>> /\ displayPoints
    /\ localData.rows # <<>>
    /\ HasPointOverlay(container[1])

-----------------------------------------------------------------------------
(* Properties of getGrid, checked under GridSpec *)

\* Sum of row[lo..hi], by halves.
RECURSIVE SumCells(_, _, _)
SumCells(row, lo, hi) ==
    IF lo > hi THEN 0
    ELSE IF lo = hi THEN row[lo]
    ELSE LET mid == (lo + hi) \div 2
         IN SumCells(row, lo, mid) + SumCells(row, mid + 1, hi)

\* Sum of the first n cells of rows lo..hi of grid.
RECURSIVE SumRows(_, _, _, _)
SumRows(grid, lo, hi, n) ==
    IF lo > hi THEN 0
    ELSE IF lo = hi THEN SumCells(grid[lo], 1, n)
    ELSE LET mid == (lo + hi) \div 2
         IN SumRows(grid, lo, mid, n) + SumRows(grid, mid + 1, hi, n)

\* Sum of the R x R cells of grid.
GridSum(grid) == SumRows(grid, 1, R, R)

\* A 100x100 array of counts.
ValidGrid(grid) ==
    /\ Len(grid) = R
    /\ \A r \in 1..R : Len(grid[r]) = R /\ \A c \in 1..R : grid[r][c] >= 0

\* coord/128 lies in [0,1).
InUnit(coord) == coord >= 0 /\ coord < 128

\* i = floor(coord/128 * 100)
IsFloor(i, coord) == i * 128 <= coord * 100 /\ coord * 100 < (i + 1) * 128

AllInUnit(data) == \A i \in 1..Len(data) : InUnit(data[i].x) /\ InUnit(data[i].y)

\* C7: for data with all coordinates in [0,1), getGrid returns a 100x100 grid
\* in which cell (row, col) counts the points with floor(y*100) = row and
\* floor(x*100) = col, so that the cells sum to the length of the data.
C7_SumEqualsLength ==
    (gPc = "done" /\ AllInUnit(gData)) =>
        /\ ~gResult.threw
        /\ ValidGrid(gResult.grid)
        /\ \A r, c \in 0..(R - 1) :
              gResult.grid[r + 1][c + 1] =
                  Cardinality({ i \in 1..Len(gData) :
                                  IsFloor(r, gData[i].y) /\ IsFloor(c, gData[i].x) })
        /\ GridSum(gResult.grid) = Len(gData)

\* Two points of the same cell, one of them in the last row.
C7_Witness ==
    /\ gPc = "done" /\ AllInUnit(gData) /\ Len(gData) = 2
    /\ gData[1] = gData[2] /\ gData[1].y = 127
    /\ gResult.grid[100][CellIndex(gData[1].x) + 1] = 2

\* C8: when some point has x or y exactly 1.0, getGrid does not return a
\* 100x100 grid of counts (it throws, or a row has a 101st element NaN), and
\* the 100x100 cells count fewer points than the data has.
C8_NoBoundsCheck ==
    (gPc = "done" /\ \E i \in 1..Len(gData) : gData[i].x = 128 \/ gData[i].y = 128) =>
        /\ gResult.threw \/ ~ValidGrid(gResult.grid)
        /\ GridSum(gResult.grid) < Len(gData)
        /\ GridSum(gResult.grid) <=
               Cardinality({ i \in 1..Len(gData) :
                               InUnit(gData[i].x) /\ InUnit(gData[i].y) })

\* x exactly 1.0 with y in range: the call returns, the row of the point has
\* 101 elements, the last one NaN.
C8_Witness ==
    /\ gPc = "done" /\ Len(gData) = 2 /\ ~gResult.threw
    /\ gData[1].x = 37 /\ gData[1].y = 0
    /\ gData[2].x = 128 /\ gData[2].y = 0
    /\ Len(gResult.grid[1]) = R + 1
    /\ gResult.grid[1][R + 1] = NaN
    /\ GridSum(gResult.grid) = 1

====
